---- MODULE Spec2Model ----
(***************************************************************************)
(* Page layer of ekv (src/src/page.rs) over the in-memory NOR flash        *)
(* (src/src/flash.rs).  One flash page PAGE is modelled, byte for byte:    *)
(* page header, chunks (ChunkHeader + data padded to the write size) and   *)
(* the erased tail.  PageWriter and PageReader are modelled field by       *)
(* field; every handler is one action.  The page is scaled down to a few   *)
(* write words so that a page fills up within a handful of writes.         *)
(***************************************************************************)
EXTENDS Integers, Sequences, FiniteSets, TLC

(***************************************************************************)
(* Configuration (crate::config) and layout constants.                     *)
(***************************************************************************)
\* Number of write words in the modelled page (scale of the model).
PageWords == 6

WRITE_SIZE == 4
ALIGN == 4
ERASE_VALUE == 255
PAGE_SIZE == PageWords * WRITE_SIZE
MAX_PAGE_COUNT == 4
PAGE_HEADER_SIZE == 4
CHUNK_HEADER_SIZE == 4
HEADER_SIZE == 4
MAGIC == 1191928668
NO_CHUNK == -1
CHUNK_LEN == 128
MAX_CHUNK_SIZE == PAGE_SIZE - PAGE_HEADER_SIZE - CHUNK_HEADER_SIZE
MAX_PAYLOAD == PAGE_SIZE - PAGE_HEADER_SIZE - HEADER_SIZE - CHUNK_HEADER_SIZE

Min(a, b) == IF a < b THEN a ELSE b
SaturatingSub(a, b) == IF a > b THEN a - b ELSE 0

\* impl_bytes!: a u32 field as its four bytes, least significant first.
\* A u32 at or above 2^31 is represented by the integer 2^32 below it, so
\* that 0xFFFF_FFFF is -1 and every negative value is larger than any offset.
ToBytes32(n) ==
    << n % 256, (n \div 256) % 256, (n \div 65536) % 256, (n \div 16777216) % 256 >>
FromBytes32(b) ==
    b[1] + 256 * b[2] + 65536 * b[3]
         + 16777216 * (IF b[4] >= 128 THEN b[4] - 256 ELSE b[4])

Take(s, n) == SubSeq(s, 1, n)
Drop(s, n) == SubSeq(s, n + 1, Len(s))

\* The element of a one-element set.
The(S) == CHOOSE x \in S : TRUE

RECURSIVE Concat(_)
Concat(ss) == IF ss = << >> THEN << >> ELSE Head(ss) \o Concat(Tail(ss))

IsPrefix(s, t) == Len(s) <= Len(t) /\ Take(t, Len(s)) = s

align_up(n) ==
    IF n % WRITE_SIZE /= 0 THEN n + WRITE_SIZE - (n % WRITE_SIZE) ELSE n

(***************************************************************************)
(* MemFlash: data bytes of page PAGE, plus what a trace of the flash       *)
(* calls would show: the offsets written since the last erase, whether an  *)
(* offset was written twice (rewritten), whether a write hit a byte that   *)
(* was not ERASE_VALUE (clobbered), and whether one of MemFlash's          *)
(* assertions failed (the program panics there).                           *)
(***************************************************************************)
Offsets == 0 .. PAGE_SIZE - 1

MemFlash_new ==
    [ data      |-> [o \in Offsets |-> ERASE_VALUE],
      written   |-> {},
      rewritten |-> FALSE,
      clobbered |-> FALSE,
      panicked  |-> FALSE ]

MemFlash_erase(f) ==
    [f EXCEPT !.data = [o \in Offsets |-> ERASE_VALUE], !.written = {}]

MemFlash_read_ok(offset, len) ==
    /\ offset <= PAGE_SIZE
    /\ offset + len <= PAGE_SIZE
    /\ offset % ALIGN = 0
    /\ len % ALIGN = 0

MemFlash_read(f, offset, len) == [i \in 1 .. len |-> f.data[offset + i - 1]]

MemFlash_write(f, offset, bytes) ==
    LET len    == Len(bytes)
        target == offset .. offset + len - 1
    IN  IF ~ /\ offset <= PAGE_SIZE
             /\ offset + len <= PAGE_SIZE
             /\ offset % ALIGN = 0
             /\ len % ALIGN = 0
        THEN [f EXCEPT !.panicked = TRUE]
        ELSE IF \E o \in target : f.data[o] /= ERASE_VALUE
        THEN [f EXCEPT !.panicked = TRUE, !.clobbered = TRUE]
        ELSE [f EXCEPT !.data = [o \in Offsets |->
                                   IF o \in target THEN bytes[o - offset + 1] ELSE @[o]],
                       !.written = @ \cup target,
                       !.rewritten = @ \/ (target \cap f.written /= {})]

\* A flash call: an erase of the page or a write.
EraseOp == [op |-> "erase", offset |-> 0, data |-> << >>]
WriteOp(offset, bytes) == [op |-> "write", offset |-> offset, data |-> bytes]
\* A read call: the offset and the buffer passed to it.
ReadOp(offset, buf) == [op |-> "read", offset |-> offset, data |-> buf]

ApplyOp(f, o) ==
    IF f.panicked THEN f
    ELSE IF o.op = "erase" THEN MemFlash_erase(f)
    ELSE MemFlash_write(f, o.offset, o.data)

RECURSIVE ApplyOps(_, _)
ApplyOps(f, ops) ==
    IF ops = << >> THEN f ELSE ApplyOps(ApplyOp(f, Head(ops)), Tail(ops))

(***************************************************************************)
(* erase, read and write of Flash are async fns (flash.rs 13-15).  The     *)
(* functions of page.rs are not async and call them without .await: the    *)
(* call builds a future that is dropped at the end of the statement and    *)
(* never polled, so the body of the flash function does not run.  Of the   *)
(* flash calls ops that a page-layer function makes, none is carried out;  *)
(* a read leaves the buffer it was given as it was, and no assertion of    *)
(* MemFlash is evaluated.                                                  *)
(***************************************************************************)
Unawaited(ops) == << >>
UnawaitedRead(buf, f, offset) == buf

(***************************************************************************)
(* PageWriter.  A handler returns the writer after the call, the flash     *)
(* calls it built with their arguments (calls), in order, those of them    *)
(* that were carried out (ops), and its return value.                      *)
(***************************************************************************)
\* The flash.write call of write_header for a header with the bytes hbytes:
\* magic and header in one buffer, at offset 0.
HeaderCall(hbytes) == << WriteOp(0, ToBytes32(MAGIC) \o hbytes) >>

PageManager_write_header(h) == Unawaited(HeaderCall(ToBytes32(h)))

\* The PageWriter struct as PageManager::write and write_append build it.
PageWriter_new(needs_erase, total_pos, chunk_offset) ==
    [ needs_erase  |-> needs_erase,
      align_buf    |-> [i \in 1 .. WRITE_SIZE |-> 0],
      total_pos    |-> total_pos,
      chunk_offset |-> chunk_offset,
      chunk_pos    |-> 0 ]

\* PageWriter::len
PageWriter_len(w) == w.total_pos

\* PageManager::write::<H> for a header type H of hsize bytes, and for the
\* TestHeader of the tests.
PageManager_write_for(hsize) == PageWriter_new(TRUE, 0, PAGE_HEADER_SIZE + hsize)
PageManager_write == PageManager_write_for(HEADER_SIZE)

\* Bytes the current chunk can still take.
max_write_nohdr(w) == SaturatingSub(PAGE_SIZE, w.chunk_offset + w.chunk_pos)
max_write(w) == SaturatingSub(PAGE_SIZE, w.chunk_offset + CHUNK_HEADER_SIZE + w.chunk_pos)

\* Offset of the next data byte of the current chunk.
DataOffset(w) == w.chunk_offset + CHUNK_HEADER_SIZE + w.chunk_pos

\* erase_if_needed: the flash.erase call it builds, and the flash calls
\* carried out (needs_erase is cleared by the callers below).
EraseCall(w) == IF w.needs_erase THEN << EraseOp >> ELSE << >>
erase_if_needed(w) == Unawaited(EraseCall(w))

\* align_buf[offs..][..n].copy_from_slice(src)
CopyInto(buf, offs, src) ==
    [i \in 1 .. Len(buf) |->
        IF i > offs /\ i <= offs + Len(src) THEN src[i - offs] ELSE buf[i]]

PageWriter_write(w, data_in) ==
    LET total_n == Min(Len(data_in), max_write(w))
    IN  IF total_n = 0 THEN [w |-> w, ops |-> << >>, calls |-> << >>, n |-> 0]
        ELSE
        LET data0 == Take(data_in, total_n)
            ops0  == erase_if_needed(w)
            w0    == [w EXCEPT !.needs_erase = FALSE]
            \* fill up the partially filled staging word
            align_offs == w0.chunk_pos % WRITE_SIZE
            left  == WRITE_SIZE - align_offs
            n1    == IF align_offs /= 0 THEN Min(left, Len(data0)) ELSE 0
            w1    == IF align_offs /= 0
                     THEN [w0 EXCEPT !.align_buf = CopyInto(@, align_offs, Take(data0, n1)),
                                     !.total_pos = @ + n1,
                                     !.chunk_pos = @ + n1]
                     ELSE w0
            data1 == Drop(data0, n1)
            call1 == IF align_offs /= 0 /\ n1 = left
                     THEN << WriteOp(DataOffset(w1) - WRITE_SIZE, w1.align_buf) >>
                     ELSE << >>
            ops1  == ops0 \o Unawaited(call1)
            \* whole words
            n2    == Len(data1) - (Len(data1) % WRITE_SIZE)
            call2 == IF n2 /= 0
                     THEN << WriteOp(DataOffset(w1), Take(data1, n2)) >>
                     ELSE << >>
            ops2  == ops1 \o Unawaited(call2)
            w2    == [w1 EXCEPT !.total_pos = @ + n2, !.chunk_pos = @ + n2]
            data2 == Drop(data1, n2)
            \* the rest waits in the staging word
            n3    == Len(data2)
            w3    == [w2 EXCEPT !.align_buf = CopyInto(@, 0, data2),
                                !.total_pos = @ + n3,
                                !.chunk_pos = @ + n3]
        IN  [w |-> w3, ops |-> ops2, calls |-> EraseCall(w) \o call1 \o call2, n |-> total_n]

\* write_header::<H> with a header of the bytes hbytes, and with the
\* TestHeader { foo: h } of the tests.
PageWriter_write_header_of(w, hbytes) ==
    [ w     |-> [w EXCEPT !.needs_erase = FALSE],
      ops   |-> erase_if_needed(w) \o Unawaited(HeaderCall(hbytes)),
      calls |-> EraseCall(w) \o HeaderCall(hbytes) ]

PageWriter_write_header(w, h) ==
    [ w     |-> [w EXCEPT !.needs_erase = FALSE],
      ops   |-> erase_if_needed(w) \o PageManager_write_header(h),
      calls |-> EraseCall(w) \o HeaderCall(ToBytes32(h)) ]

PageWriter_commit(w) ==
    IF w.chunk_pos = 0 THEN [w |-> w, ops |-> << >>, calls |-> << >>]
    ELSE
    LET ops0 == erase_if_needed(w)
        align_offs == w.chunk_pos % WRITE_SIZE
        call1 == IF align_offs /= 0
                 THEN << WriteOp(DataOffset(w) - align_offs, w.align_buf) >>
                 ELSE << >>
        call2 == << WriteOp(w.chunk_offset, ToBytes32(w.chunk_pos)) >>
        ops2 == ops0 \o Unawaited(call1) \o Unawaited(call2)
    IN  [ w   |-> [w EXCEPT !.needs_erase = FALSE,
                            !.chunk_offset = @ + CHUNK_HEADER_SIZE + align_up(w.chunk_pos),
                            !.chunk_pos = 0],
          ops   |-> ops2,
          calls |-> EraseCall(w) \o call1 \o call2 ]

(***************************************************************************)
(* PageReader.  A handler returns the reader after the call and its        *)
(* result; st is "ok", "corrupted" (Err(Error::Corrupted)) or "panic" (a   *)
(* slice of the chunk buffer is out of range).                             *)
(***************************************************************************)
PageReader_open_chunk(r, f) ==
    LET data_start == r.chunk_offset + CHUNK_HEADER_SIZE IN
    IF data_start > PAGE_SIZE
    THEN [r |-> [r EXCEPT !.at_end = TRUE], st |-> "ok", ret |-> FALSE]
    ELSE
    LET header_len == FromBytes32(UnawaitedRead([i \in 1 .. CHUNK_HEADER_SIZE |-> 0],
                                                f, r.chunk_offset)) IN
    IF header_len = NO_CHUNK
    THEN [r |-> [r EXCEPT !.at_end = TRUE], st |-> "ok", ret |-> FALSE]
    ELSE IF header_len < 0 \/ header_len > PAGE_SIZE - data_start
    THEN [r |-> r, st |-> "corrupted", ret |-> FALSE]
    ELSE
    LET n == align_up(header_len) IN
    IF n > MAX_CHUNK_SIZE
    THEN [r |-> [r EXCEPT !.chunk_pos = 0, !.chunk_len = header_len],
          st |-> "panic", ret |-> FALSE]
    ELSE [r |-> [r EXCEPT !.chunk_pos = 0,
                          !.chunk_len = header_len,
                          !.buf = UnawaitedRead(@, f, data_start)],
          st |-> "ok", ret |-> TRUE]

PageReader_next_chunk(r, f) ==
    PageReader_open_chunk(
        [r EXCEPT !.chunk_offset = @ + CHUNK_HEADER_SIZE + align_up(r.chunk_len)], f)

PageReader_read(r, f, len) ==
    IF r.at_end \/ len = 0 THEN [r |-> r, st |-> "ok", n |-> 0, data |-> << >>]
    ELSE
    LET nx == IF r.chunk_pos = r.chunk_len
              THEN PageReader_next_chunk(r, f)
              ELSE [r |-> r, st |-> "ok", ret |-> TRUE]
    IN  IF nx.st /= "ok" THEN [r |-> nx.r, st |-> nx.st, n |-> 0, data |-> << >>]
        ELSE IF ~nx.ret THEN [r |-> nx.r, st |-> "ok", n |-> 0, data |-> << >>]
        ELSE
        LET n == Min(len, nx.r.chunk_len - nx.r.chunk_pos) IN
        [ r    |-> [nx.r EXCEPT !.chunk_pos = @ + n],
          st   |-> "ok",
          n    |-> n,
          data |-> SubSeq(nx.r.buf, nx.r.chunk_pos + 1, nx.r.chunk_pos + n) ]

PageReader_skip(r, f, len) ==
    IF r.at_end \/ len = 0 THEN [r |-> r, st |-> "ok", n |-> 0]
    ELSE
    LET nx == IF r.chunk_pos = r.chunk_len
              THEN PageReader_next_chunk(r, f)
              ELSE [r |-> r, st |-> "ok", ret |-> TRUE]
    IN  IF nx.st /= "ok" THEN [r |-> nx.r, st |-> nx.st, n |-> 0]
        ELSE IF ~nx.ret THEN [r |-> nx.r, st |-> "ok", n |-> 0]
        ELSE
        LET n == Min(len, nx.r.chunk_len - nx.r.chunk_pos) IN
        [ r  |-> [nx.r EXCEPT !.prev_chunks_len = @ + n, !.chunk_pos = @ + n],
          st |-> "ok",
          n  |-> n ]

PageReader_is_at_eof(r, f) ==
    IF r.at_end THEN [r |-> r, st |-> "ok", ret |-> TRUE]
    ELSE IF r.chunk_pos = r.chunk_len
    THEN LET nx == PageReader_next_chunk(r, f) IN
         [r |-> nx.r, st |-> nx.st, ret |-> (nx.st = "ok" /\ ~nx.ret)]
    ELSE [r |-> r, st |-> "ok", ret |-> FALSE]

(***************************************************************************)
(* PageManager: read_header, read, write_append.                           *)
(***************************************************************************)
PageManager_read_header(f) ==
    LET len == PAGE_HEADER_SIZE + HEADER_SIZE
        buf == UnawaitedRead([i \in 1 .. len |-> 0], f, 0)
    IN  IF FromBytes32(Take(buf, PAGE_HEADER_SIZE)) /= MAGIC
        THEN [st |-> "corrupted", header |-> 0]
        ELSE [st |-> "ok", header |-> FromBytes32(Drop(buf, PAGE_HEADER_SIZE))]

\* read_header::<H> for a header type H of hsize bytes: the flash.read call
\* it builds, the result, and the bytes of the header.
PageManager_read_header_for(f, hsize) ==
    LET zeroed == [i \in 1 .. PAGE_HEADER_SIZE + hsize |-> 0]
        buf    == UnawaitedRead(zeroed, f, 0)
    IN  [ st     |-> IF FromBytes32(Take(buf, PAGE_HEADER_SIZE)) /= MAGIC
                     THEN "corrupted" ELSE "ok",
          hbytes |-> Drop(buf, PAGE_HEADER_SIZE),
          calls  |-> << ReadOp(0, zeroed) >> ]

PageReader_new ==
    [ prev_chunks_len |-> 0,
      at_end          |-> FALSE,
      chunk_offset    |-> PAGE_HEADER_SIZE + HEADER_SIZE,
      chunk_len       |-> 0,
      chunk_pos       |-> 0,
      buf             |-> [i \in 1 .. MAX_CHUNK_SIZE |-> 0] ]

PageManager_read(f) ==
    LET hd == PageManager_read_header(f) IN
    IF hd.st /= "ok" THEN [st |-> hd.st, header |-> 0, r |-> PageReader_new]
    ELSE
    LET oc == PageReader_open_chunk(PageReader_new, f) IN
    IF oc.st /= "ok" THEN [st |-> oc.st, header |-> 0, r |-> PageReader_new]
    ELSE [st |-> "ok", header |-> hd.header, r |-> oc.r]

\* while !r.at_end { r.next_chunk(flash)?; }
RECURSIVE SkipToEnd(_, _)
SkipToEnd(r, f) ==
    IF r.at_end THEN [r |-> r, st |-> "ok"]
    ELSE LET nx == PageReader_next_chunk(r, f) IN
         IF nx.st /= "ok" THEN [r |-> nx.r, st |-> nx.st]
         ELSE SkipToEnd(nx.r, f)

\* The check that all space after chunk_offset is erased, CHUNK_LEN bytes at
\* a time, in a buffer that holds ERASE_VALUE before the read.
TailStarts(offset) ==
    {s \in offset .. PAGE_SIZE - 1 : (s - offset) % CHUNK_LEN = 0}
TailErased(f, offset) ==
    \A s \in TailStarts(offset) :
        LET len == Min(s + CHUNK_LEN, PAGE_SIZE) - s
            buf == UnawaitedRead([i \in 1 .. len |-> ERASE_VALUE], f, s)
        IN  \A i \in 1 .. len : buf[i] = ERASE_VALUE

\* Everything a reader gets from the page: the header and, read with a
\* buffer that takes a whole chunk, the data of one chunk per call until a
\* call returns 0.
RECURSIVE Drain(_, _)
Drain(rd, f) ==
    The({ IF c.st /= "ok" THEN [st |-> c.st, chunks |-> << >>]
          ELSE IF c.n = 0 THEN [st |-> "ok", chunks |-> << >>]
          ELSE The({ [st |-> rest.st, chunks |-> << c.data >> \o rest.chunks]
                   : rest \in { Drain(c.r, f) } })
        : c \in { PageReader_read(rd, f, MAX_CHUNK_SIZE) } })

ReadChunks(f) ==
    The({ IF o.st /= "ok" THEN [st |-> o.st, header |-> 0, chunks |-> << >>]
          ELSE The({ [st |-> d.st, header |-> o.header, chunks |-> d.chunks]
                   : d \in { Drain(o.r, f) } })
        : o \in { PageManager_read(f) } })

\* Where the append writer starts: the end of the committed chunks, or
\* PAGE_SIZE (as if the page was full) when the tail is not erased.
AppendOffset(ok, offset) == IF ok THEN offset ELSE PAGE_SIZE

PageManager_write_append(f) ==
    LET rd == PageManager_read(f) IN
    IF rd.st /= "ok" THEN [st |-> rd.st, header |-> 0, w |-> PageManager_write]
    ELSE
    LET e == SkipToEnd(rd.r, f) IN
    IF e.st /= "ok" THEN [st |-> e.st, header |-> 0, w |-> PageManager_write]
    ELSE
    LET ok == e.r.chunk_offset = PAGE_SIZE \/ TailErased(f, e.r.chunk_offset)
        chunk_offset == AppendOffset(ok, e.r.chunk_offset)
    IN  [ st     |-> "ok",
          header |-> rd.header,
          w      |-> PageWriter_new(FALSE, e.r.prev_chunks_len, chunk_offset) ]

(***************************************************************************)
(* Database (spec sections 4.3 to 4.5), on top of the page layer above.    *)
(* The flash is a function from page ids to pages.  A file is one page: a  *)
(* page header (kind data, file id, seq 0) and one chunk of records; a     *)
(* record takes one unit of chunk data.  The meta page has a page header   *)
(* (kind meta, meta_seq) and one chunk: the number of file descriptors and *)
(* then the descriptors, one unit each.  L0_MAX is above the number of     *)
(* files the flash holds, so that no compaction runs, and the write buffer *)
(* holds a whole transaction.                                              *)
(***************************************************************************)
KIND_DATA == 1
KIND_META == 2

PageIds == 0 .. MAX_PAGE_COUNT - 1

\* The higher-layer page header: kind:u8, file_id:u8, seq:u16.
DbHeader(kind, file_id, seq) == kind + 256 * file_id + 65536 * seq
HeaderKind(h) == h % 256
HeaderFileId(h) == (h \div 256) % 256
HeaderSeq(h) == h \div 65536

\* The handle before mount.
Database_new ==
    [ mounted |-> FALSE, meta_page |-> 0, meta_seq |-> 0, files |-> << >>, tx |-> << >> ]

\* A flash call on a page.
OnPage(page_id, ops) ==
    The({ [i \in 1 .. Len(o) |-> [page_id |-> page_id, op |-> o[i]]] : o \in {ops} })

RECURSIVE ApplyLog(_, _)
ApplyLog(fl, log) ==
    IF log = << >> THEN fl
    ELSE ApplyLog([fl EXCEPT ![Head(log).page_id] = ApplyOp(@, Head(log).op)], Tail(log))

\* A file page: the records, the commit of their chunk (its ChunkHeader),
\* then the page header (4.3).
FilePageOps(file_id, records) ==
    The({ The({ The({ c.ops \o m.ops \o h.ops
        : h \in { PageWriter_write_header(m.w, DbHeader(KIND_DATA, file_id, 0)) } })
        : m \in { PageWriter_commit(c.w) } })
        : c \in { PageWriter_write(PageManager_write, records) } })

\* The meta page: the body, the page header, then the commit of the body's
\* chunk, whose ChunkHeader makes the meta valid (4.5, 8.2).
MetaPageOps(meta_seq, files) ==
    The({ The({ The({ c.ops \o h.ops \o m.ops
        : m \in { PageWriter_commit(h.w) } })
        : h \in { PageWriter_write_header(c.w, DbHeader(KIND_META, 0, meta_seq)) } })
        : c \in { PageWriter_write(PageManager_write, << Len(files) >> \o files) } })

\* The committed data of a page, and whether the page is a valid meta page:
\* its header is a meta header and its body is a count and that many
\* descriptors.
PageBody(f) == Concat(ReadChunks(f).chunks)
IsMeta(f) ==
    \E p \in { ReadChunks(f) } :
        /\ p.st = "ok"
        /\ HeaderKind(p.header) = KIND_META
        /\ p.chunks /= << >>
        /\ \E body \in { Concat(p.chunks) } : body[1] = Len(body) - 1
MetaSeq(f) == HeaderSeq(ReadChunks(f).header)

\* mount: the valid meta with the largest meta_seq, the lower page id on a
\* tie; Corrupted when no page is a valid meta.
Database_mount(fl) ==
    The({ IF metas = {} THEN [st |-> "corrupted", db |-> Database_new]
          ELSE The({ [ st |-> "ok",
                       db |-> [ mounted |-> TRUE, meta_page |-> best,
                                meta_seq |-> MetaSeq(fl[best]),
                                files |-> Tail(PageBody(fl[best])), tx |-> << >> ] ]
                 : best \in { p \in metas : \A q \in metas :
                                 \/ MetaSeq(fl[q]) < MetaSeq(fl[p])
                                 \/ (MetaSeq(fl[q]) = MetaSeq(fl[p]) /\ p <= q) } })
        : metas \in { {p \in PageIds : IsMeta(fl[p])} } })

\* format: every page erased, then an empty meta with meta_seq 0 on the
\* lowest page.
Database_format ==
    LET log == [i \in 1 .. MAX_PAGE_COUNT |-> [page_id |-> i - 1, op |-> EraseOp]]
                   \o OnPage(0, MetaPageOps(0, << >>))
    IN  [ log |-> log,
          db  |-> [ mounted |-> TRUE, meta_page |-> 0, meta_seq |-> 0,
                    files |-> << >>, tx |-> << >> ] ]

\* The allocator: the lowest page that is neither the meta page nor a page
\* of a file of the current meta, nor in taken.
FreePages(d, taken) ==
    PageIds \ ({d.meta_page} \cup {d.files[i].head_page : i \in 1 .. Len(d.files)} \cup taken)
Allocate(d, taken) ==
    CHOOSE p \in FreePages(d, taken) : \A q \in FreePages(d, taken) : p <= q

\* The value of key in the records recs (ascending by key); << >> if absent.
RECURSIVE FindRecord(_, _)
FindRecord(recs, key) ==
    IF recs = << >> THEN << >>
    ELSE IF Head(recs).key = key THEN << Head(recs).value >>
    ELSE IF Head(recs).key > key THEN << >>
    ELSE FindRecord(Tail(recs), key)

\* ReadTx::read: the files from the newest (largest file id) to the oldest,
\* the first hit; the empty value when no file holds the key.
NextFile(fs) == CHOOSE d \in fs : \A e \in fs : d.file_id >= e.file_id

RECURSIVE ReadFiles(_, _, _)
ReadFiles(fl, fs, key) ==
    IF fs = {} THEN << >>
    ELSE The({ The({ IF hit /= << >> THEN hit[1] ELSE ReadFiles(fl, fs \ {d}, key)
                   : hit \in { FindRecord(PageBody(fl[d.head_page]), key) } })
             : d \in { NextFile(fs) } })

ReadTx_read(d, fl, key) ==
    ReadFiles(fl, {d.files[i] : i \in 1 .. Len(d.files)}, key)

\* WriteTx::commit: the buffer goes to a new level-0 file on a fresh page,
\* then a new meta page with one descriptor more is written; Full when there
\* is no page for the file or for the meta.
NextFileId(d) ==
    IF d.files = << >> THEN 1 ELSE 1 + d.files[Len(d.files)].file_id

WriteTx_commit(d) ==
    LET recs == d.tx[1] IN
    IF FreePages(d, {}) = {} THEN [st |-> "full", log |-> << >>, db |-> [d EXCEPT !.tx = << >>]]
    ELSE
    LET fp     == Allocate(d, {})
        desc   == [ file_id |-> NextFileId(d), level |-> 0, head_page |-> fp,
                    tail_page |-> fp, byte_len |-> Len(recs), record_count |-> Len(recs) ]
        flog   == OnPage(fp, FilePageOps(desc.file_id, recs))
    IN  IF FreePages(d, {fp}) = {}
        THEN [st |-> "full", log |-> flog, db |-> [d EXCEPT !.tx = << >>]]
        ELSE
        LET mp   == Allocate(d, {fp})
            mlog == OnPage(mp, MetaPageOps(d.meta_seq + 1, Append(d.files, desc)))
        IN  [ st  |-> "ok",
              log |-> flog \o mlog,
              db  |-> [d EXCEPT !.meta_page = mp, !.meta_seq = @ + 1,
                                !.files = Append(@, desc), !.tx = << >>] ]

(***************************************************************************)
(* Inputs of the calls.                                                    *)
(***************************************************************************)
\* a ^ b on unsigned integers.
RECURSIVE Xor(_, _)
Xor(a, b) ==
    IF a = 0 THEN b
    ELSE IF b = 0 THEN a
    ELSE ((a + b) % 2) + 2 * Xor(a \div 2, b \div 2)

\* dummy_data of the tests: byte i (from 0) is the xor of the four bytes of i.
dummy_data(len) ==
    [j \in 1 .. len |->
        LET i == j - 1
        IN  Xor(Xor(i % 256, (i \div 256) % 256),
                Xor((i \div 65536) % 256, (i \div 16777216) % 256))]

\* A slice of dummy_data: the len bytes after its first base bytes.
DataFrom(base, len) == SubSeq(dummy_data(base + len), base + 1, base + len)
WriteLens == {0, 1, 9, MAX_PAYLOAD + 1}
ReadLens == {3, MAX_PAYLOAD}
Headers == {123456}

(***************************************************************************)
(* What the flash holds when the program starts.  MemFlash::data is pub    *)
(* and the flash outlives the program: besides the erased page of          *)
(* MemFlash::new, the page can hold what flash writes that were carried    *)
(* out left there, in the layout PageReader parses: page header, chunks    *)
(* (ChunkHeader, data area of whole words), erased tail; also a tail       *)
(* with data and no ChunkHeader, a ChunkHeader whose length reaches past   *)
(* the page, and data without a page header.                               *)
(***************************************************************************)
\* Offset just after the last chunk of cs.
RECURSIVE ChunksEnd(_)
ChunksEnd(cs) ==
    IF cs = << >> THEN PAGE_HEADER_SIZE + HEADER_SIZE
    ELSE ChunksEnd(Take(cs, Len(cs) - 1)) + CHUNK_HEADER_SIZE + align_up(Len(cs[Len(cs)]))

\* A chunk as the flash holds it: the ChunkHeader with the length of data,
\* and the data area, data followed by the rest of its last word.
StoredChunk(data, rest) == [data |-> data, area |-> data \o rest]

RECURSIVE ChunkWrites(_, _)
ChunkWrites(off, cs) ==
    IF cs = << >> THEN << >>
    ELSE << WriteOp(off + CHUNK_HEADER_SIZE, Head(cs).area),
            WriteOp(off, ToBytes32(Len(Head(cs).data))) >>
         \o ChunkWrites(off + CHUNK_HEADER_SIZE + Len(Head(cs).area), Tail(cs))

\* The chunk [1, 2, 3] with a last byte of 0, and the chunk [4, 5, 6, 7].
FirstChunk == StoredChunk(DataFrom(1, 3), << 0 >>)
StoredChunkSets == { << >>, << FirstChunk, StoredChunk(DataFrom(4, 4), << >>) >> }

PageImage(hdr, cs, extra) ==
    ApplyOps(MemFlash_new,
             (IF hdr = << >> THEN << >>
              ELSE << WriteOp(0, ToBytes32(MAGIC) \o ToBytes32(hdr[1])) >>)
                 \o ChunkWrites(PAGE_HEADER_SIZE + HEADER_SIZE, cs) \o extra)

StoredPages ==
    { MemFlash_new }
        \cup { PageImage(<< h >>, cs, << >>) : h \in Headers, cs \in StoredChunkSets }
        \cup { PageImage(<< h >>, << FirstChunk >>,
                         << WriteOp(ChunksEnd(<< FirstChunk.data >>) + CHUNK_HEADER_SIZE,
                                    DataFrom(101, WRITE_SIZE)) >>) : h \in Headers }
        \cup { PageImage(<< h >>, << FirstChunk >>,
                         << WriteOp(ChunksEnd(<< FirstChunk.data >>), ToBytes32(PAGE_SIZE)) >>)
               : h \in Headers }
        \cup { PageImage(<< >>, << FirstChunk >>, << >>) }

(***************************************************************************)
(* State.                                                                  *)
(*   flash  the MemFlash                                                   *)
(*   w      << >> or << the live PageWriter >>                             *)
(*   r      << >> or << the live PageReader >>                             *)
(*   res    the last call: its name, the length it was asked for and what  *)
(*          it returned                                                    *)
(*   trace  the erase and write calls that the last call carried out on    *)
(*          the flash                                                      *)
(*   gh     history of the calls, kept beside the program state: what the  *)
(*          calls made so far are to have left on the page                 *)
(*   db     the Database handle (in RAM)                                   *)
(***************************************************************************)
VARIABLES flash, w, r, res, trace, gh, db
vars == << flash, w, r, res, trace, gh, db >>

NoRes ==
    [op |-> "none", st |-> "ok", len |-> 0, n |-> 0, data |-> << >>, header |-> 0, ret |-> FALSE]

GhostInit ==
    [ hdr       |-> << >>,     \* << h >> once a live writer's write_header(h) returned
      committed |-> << >>,     \* the chunks for which commit returned, since the writer's first call
      cur       |-> << >>,     \* bytes accepted by the live writer since its last commit
      wkind     |-> "none",    \* "new" (PageManager::write) or "append" (write_append)
      started   |-> FALSE,     \* a writer from PageManager::write made its first call on this page
      erases    |-> 0,         \* erase calls the live writer carried out
      wrote     |-> FALSE,     \* the live writer carried out a flash write
      full      |-> FALSE,     \* a write returned less than it was offered, since the writer's first call
      wfull     |-> FALSE,     \* a write of the live writer returned less than it was offered
      lost      |-> FALSE,     \* a writer was dropped with accepted bytes it did not commit
      stopped   |-> FALSE ]    \* the last writer was dropped right after a write or a commit

Init ==
    /\ flash \in StoredPages
    /\ w = << >>
    /\ r = << >>
    /\ res = NoRes
    /\ trace = << >>
    /\ gh = GhostInit
    /\ db = Database_new

Running == ~flash.panicked

HasErase(ops) == \E i \in 1 .. Len(ops) : ops[i].op = "erase"

HasWrite(ops) == \E i \in 1 .. Len(ops) : ops[i].op = "write"

NumErases(ops) == Cardinality({i \in 1 .. Len(ops) : ops[i].op = "erase"})

\* The history after a call of the live writer: the flash calls ops it
\* carried out and, when the call is the first that clears needs_erase, the
\* page that is to be erased by it.
AfterCall(g, before, after, ops) ==
    LET g1 == [g EXCEPT !.erases = @ + NumErases(ops), !.wrote = @ \/ HasWrite(ops)]
    IN  IF before.needs_erase /\ ~after.needs_erase
        THEN [g1 EXCEPT !.hdr = << >>, !.committed = << >>, !.full = FALSE,
                        !.lost = FALSE, !.started = TRUE]
        ELSE g1

\* Data offered to write: counting on from the bytes accepted so far, so
\* that every accepted byte differs from the ones before it.
WriteInputs ==
    { DataFrom(1 + Len(Concat(gh.committed)) + Len(gh.cur), len) : len \in WriteLens }

(***************************************************************************)
(* Writer side.  The page has one owner at a time: a writer is opened when *)
(* no reader is open on the page, and a reader when no writer is.          *)
(***************************************************************************)
OpenWrite ==
    /\ Running /\ w = << >> /\ r = << >>
    /\ w' = << PageManager_write >>
    /\ res' = [NoRes EXCEPT !.op = "write_open"]
    /\ trace' = << >>
    /\ gh' = [gh EXCEPT !.wkind = "new", !.cur = << >>,
                        !.erases = 0, !.wrote = FALSE, !.wfull = FALSE, !.stopped = FALSE]
    /\ UNCHANGED << flash, r, db >>

OpenAppend ==
    /\ Running /\ w = << >> /\ r = << >>
    /\ LET a == PageManager_write_append(flash) IN
       /\ w' = IF a.st = "ok" THEN << a.w >> ELSE << >>
       /\ res' = [NoRes EXCEPT !.op = "write_append", !.st = a.st, !.header = a.header]
       /\ gh' = IF a.st = "ok"
                THEN [gh EXCEPT !.wkind = "append", !.cur = << >>,
                                !.erases = 0, !.wrote = FALSE, !.wfull = FALSE,
                                !.stopped = FALSE]
                ELSE gh
    /\ trace' = << >>
    /\ UNCHANGED << flash, r, db >>

Write(data) ==
    /\ Running /\ w /= << >>
    /\ LET c == PageWriter_write(w[1], data) IN
       /\ w' = << c.w >>
       /\ flash' = ApplyOps(flash, c.ops)
       /\ trace' = c.ops
       /\ res' = [NoRes EXCEPT !.op = "write", !.len = Len(data), !.n = c.n]
       /\ gh' = [AfterCall(gh, w[1], c.w, c.ops) EXCEPT
                   !.cur = @ \o Take(data, c.n),
                   !.full = @ \/ c.n < Len(data),
                   !.wfull = @ \/ c.n < Len(data)]
    /\ UNCHANGED << r, db >>

\* write_header is called at most once between two erases of the page, and
\* never on a writer from write_append.
WriteHeader(h) ==
    /\ Running /\ w /= << >>
    /\ gh.wkind = "new"
    /\ w[1].needs_erase \/ gh.hdr = << >>
    /\ LET c == PageWriter_write_header(w[1], h) IN
       /\ w' = << c.w >>
       /\ flash' = ApplyOps(flash, c.ops)
       /\ trace' = c.ops
       /\ res' = [NoRes EXCEPT !.op = "write_header", !.header = h]
       /\ gh' = [AfterCall(gh, w[1], c.w, c.ops) EXCEPT !.hdr = << h >>]
    /\ UNCHANGED << r, db >>

Commit ==
    /\ Running /\ w /= << >>
    /\ LET c == PageWriter_commit(w[1]) IN
       /\ w' = << c.w >>
       /\ flash' = ApplyOps(flash, c.ops)
       /\ trace' = c.ops
       /\ res' = [NoRes EXCEPT !.op = "commit", !.n = Len(gh.cur)]
       /\ gh' = [AfterCall(gh, w[1], c.w, c.ops) EXCEPT
                   !.committed = IF gh.cur = << >> THEN @ ELSE Append(@, gh.cur),
                   !.cur = << >>]
    /\ UNCHANGED << r, db >>

\* The writer is dropped, or execution stops between two of its calls; n
\* tells how many accepted bytes were not committed.  No call of a writer
\* carries out a flash call, so that there is no place inside a call where
\* the flash differs from what it was before the call.
DropWriter ==
    /\ Running /\ w /= << >>
    /\ w' = << >>
    /\ res' = [NoRes EXCEPT !.op = "drop_writer", !.n = Len(gh.cur)]
    /\ trace' = << >>
    /\ gh' = [gh EXCEPT !.wkind = "none", !.cur = << >>,
                        !.erases = 0, !.wrote = FALSE, !.wfull = FALSE,
                        !.lost = @ \/ (gh.cur /= << >>),
                        !.stopped = (res.op \in {"write", "commit"})]
    /\ UNCHANGED << flash, r, db >>

(***************************************************************************)
(* Reader side.  PageManager::read is the only place that builds a         *)
(* PageReader.                                                             *)
(***************************************************************************)
ReadHeader ==
    /\ Running
    /\ w = << >> /\ r = << >>
    /\ LET c == PageManager_read_header(flash) IN
       /\ res' = [NoRes EXCEPT !.op = "read_header", !.st = c.st, !.header = c.header]
    /\ trace' = << >>
    /\ UNCHANGED << flash, w, r, gh, db >>

OpenRead ==
    /\ Running /\ r = << >> /\ w = << >>
    /\ LET c == PageManager_read(flash) IN
       /\ r' = IF c.st = "ok" THEN << c.r >> ELSE << >>
       /\ res' = [NoRes EXCEPT !.op = "read_open", !.st = c.st, !.header = c.header]
    /\ trace' = << >>
    /\ UNCHANGED << flash, w, gh, db >>





\* The calls of a program that has the PageManager.  read, skip and
\* is_at_eof need a PageReader, and PageManager::read returns none
\* (read_header compares the buffer it zeroed with H::MAGIC): no behaviour
\* has a call of them.
Next ==
    \/ OpenWrite
    \/ OpenAppend
    \/ \E data \in WriteInputs : Write(data)
    \/ \E h \in Headers : WriteHeader(h)
    \/ Commit
    \/ DropWriter
    \/ ReadHeader
    \/ OpenRead

Spec == Init /\ [][Next]_vars


(***************************************************************************)
(* MemFlash with all its pages: data is one vector of                      *)
(* PAGE_SIZE * MAX_PAGE_COUNT bytes, page p at p * PAGE_SIZE.  A failed    *)
(* assertion stops the program (panicked) with data as it was.  The call   *)
(* counters of MemFlash are left out.  The calls are made with page ids,   *)
(* offsets and lengths inside and outside of what the assertions allow.    *)
(***************************************************************************)
FlashBytes == 0 .. PAGE_SIZE * MAX_PAGE_COUNT - 1

FlashDevice_new ==
    [ data |-> [i \in FlashBytes |-> ERASE_VALUE], panicked |-> FALSE ]

FlashDevice_erase_all(m, page_id) ==
    IF ~(page_id < MAX_PAGE_COUNT) THEN [m EXCEPT !.panicked = TRUE]
    ELSE [m EXCEPT !.data = [i \in FlashBytes |-> ERASE_VALUE]]
FlashDevice_erase(m, page_id) ==
    IF ~(page_id < MAX_PAGE_COUNT) THEN [m EXCEPT !.panicked = TRUE]
    ELSE [m EXCEPT !.data = [i \in FlashBytes |->
              IF i >= page_id * PAGE_SIZE /\ i < page_id * PAGE_SIZE + PAGE_SIZE
              THEN ERASE_VALUE ELSE @[i]]]

\* The assertions read and write share.
FlashDevice_range_ok(page_id, offset, len) ==
    /\ page_id < MAX_PAGE_COUNT
    /\ offset <= PAGE_SIZE
    /\ offset + len <= PAGE_SIZE
    /\ offset % ALIGN = 0
    /\ len % ALIGN = 0

FlashDevice_read(m, page_id, offset, len) ==
    IF ~FlashDevice_range_ok(page_id, offset, len)
    THEN [m |-> [m EXCEPT !.panicked = TRUE], data |-> << >>]
    ELSE [m |-> m, data |-> [i \in 1 .. len |-> m.data[page_id * PAGE_SIZE + offset + i - 1]]]

FlashDevice_write(m, page_id, offset, bytes) ==
    LET len   == Len(bytes)
        start == page_id * PAGE_SIZE + offset
    IN  IF ~FlashDevice_range_ok(page_id, offset, len)
        THEN [m EXCEPT !.panicked = TRUE]
        ELSE IF \E i \in start .. start + len - 1 : m.data[i] /= ERASE_VALUE
        THEN [m EXCEPT !.panicked = TRUE]
        ELSE [m EXCEPT !.data = [i \in FlashBytes |->
                  IF i >= start /\ i < start + len THEN bytes[i - start + 1] ELSE @[i]]]

DevPages == {0, 1, MAX_PAGE_COUNT}
DevOffsets == {0, 2, PAGE_SIZE - WRITE_SIZE, PAGE_SIZE}
DevData == { DataFrom(1, 2), DataFrom(1, 4), DataFrom(5, 8),
             [i \in 1 .. WRITE_SIZE |-> ERASE_VALUE] }
DevLens == {2, 4, 8}

DevRes(op, page_id, offset, data, m) ==
    [ op |-> op, page_id |-> page_id, offset |-> offset, data |-> data,
      st |-> IF m.panicked THEN "panic" ELSE "ok" ]

DevInit ==
    /\ flash = FlashDevice_new
    /\ res = DevRes("new", 0, 0, << >>, FlashDevice_new)
    /\ w = << >> /\ r = << >> /\ trace = << >> /\ gh = GhostInit
    /\ db = Database_new

DevErase(page_id) ==
    /\ ~flash.panicked
    /\ flash' = FlashDevice_erase(flash, page_id)
    /\ res' = DevRes("erase", page_id, 0, << >>, flash')
    /\ UNCHANGED << w, r, trace, gh, db >>

DevWrite(page_id, offset, bytes) ==
    /\ ~flash.panicked
    /\ flash' = FlashDevice_write(flash, page_id, offset, bytes)
    /\ res' = DevRes("write", page_id, offset, bytes, flash')
    /\ UNCHANGED << w, r, trace, gh, db >>

\* res.data is the request (len bytes of zeros) when the call panics, and
\* the buffer as read filled it when it returns.
DevRead(page_id, offset, len) ==
    /\ ~flash.panicked
    /\ LET c == FlashDevice_read(flash, page_id, offset, len) IN
       /\ flash' = c.m
       /\ res' = DevRes("read", page_id, offset,
                        IF c.m.panicked THEN [i \in 1 .. len |-> 0] ELSE c.data, c.m)
    /\ UNCHANGED << w, r, trace, gh, db >>

DevNext ==
    \/ \E p \in DevPages : DevErase(p)
    \/ \E p \in DevPages, o \in DevOffsets, d \in DevData : DevWrite(p, o, d)
    \/ \E p \in DevPages, o \in DevOffsets, n \in DevLens : DevRead(p, o, n)

DevSpec == DevInit /\ [][DevNext]_vars

(***************************************************************************)
(* The Database as the smoke example drives it: format, write              *)
(* transactions that write keys in ascending order and commit, reads, and  *)
(* a new Database over the same flash.  gh.mirror is the map the example   *)
(* keeps beside the database.  The pages of a commit are written through   *)
(* PageWriter, none of whose flash calls is carried out: a commit leaves   *)
(* the flash as it was, and there is no place inside it where the flash    *)
(* holds a part of it.                                                     *)
(***************************************************************************)
Keys == {1, 2}
\* The (key, value) pairs a transaction writes.
DbInputs == { << 1, << 7 >> >>, << 1, << 8, 9 >> >>, << 2, << 7 >> >> }

NoValues == [k \in Keys |-> << >>]

\* The mirror after the records recs were written to it.
RECURSIVE Inserted(_, _)
Inserted(mirror, recs) ==
    IF recs = << >> THEN mirror
    ELSE Inserted([mirror EXCEPT ![Head(recs).key] = Head(recs).value], Tail(recs))

DbRes(op, st) ==
    [op |-> op, st |-> st, key |-> 0, value |-> << >>]

DbInit ==
    /\ flash = [p \in PageIds |-> MemFlash_new]
    /\ db = Database_new
    /\ gh = [mirror |-> NoValues, commits |-> 0]
    /\ res = DbRes("new", "ok")
    /\ w = << >> /\ r = << >> /\ trace = << >>

DbFormat ==
    /\ db.tx = << >>
    /\ \E c \in { Database_format } :
       /\ flash' = ApplyLog(flash, c.log)
       /\ db' = c.db
       /\ trace' = c.log
    /\ gh' = [mirror |-> NoValues, commits |-> 0]
    /\ res' = DbRes("format", "ok")
    /\ UNCHANGED << w, r >>

DbBegin ==
    /\ db.mounted /\ db.tx = << >>
    /\ db' = [db EXCEPT !.tx = << << >> >>]
    /\ res' = DbRes("write_transaction", "ok")
    /\ trace' = << >>
    /\ UNCHANGED << flash, gh, w, r >>

DbWrite(key, value) ==
    /\ db.tx /= << >>
    /\ IF db.tx[1] = << >> THEN TRUE ELSE db.tx[1][Len(db.tx[1])].key < key
    /\ db' = [db EXCEPT !.tx = << Append(@[1], [key |-> key, value |-> value]) >>]
    /\ res' = [DbRes("write", "ok") EXCEPT !.key = key, !.value = value]
    /\ trace' = << >>
    /\ UNCHANGED << flash, gh, w, r >>

DbCommit ==
    /\ db.tx /= << >> /\ db.tx[1] /= << >>
    /\ \E c \in { WriteTx_commit(db) } :
       /\ flash' = ApplyLog(flash, c.log)
       /\ db' = c.db
       /\ trace' = c.log
       /\ res' = DbRes("commit", c.st)
       /\ gh' = IF c.st = "ok"
                THEN [gh EXCEPT !.mirror = Inserted(@, db.tx[1]), !.commits = @ + 1]
                ELSE gh
    /\ UNCHANGED << w, r >>

DbDropTx ==
    /\ db.tx /= << >>
    /\ db' = [db EXCEPT !.tx = << >>]
    /\ res' = DbRes("drop_transaction", "ok")
    /\ trace' = << >>
    /\ UNCHANGED << flash, gh, w, r >>

\* Database::new over the flash as it is, mounted for the first read.
DbRemount ==
    /\ db.tx = << >>
    /\ \E m \in { Database_mount(flash) } :
       /\ db' = m.db
       /\ res' = DbRes("remount", m.st)
    /\ trace' = << >>
    /\ UNCHANGED << flash, gh, w, r >>

DbRead(key) ==
    /\ db.mounted /\ db.tx = << >>
    /\ res' = [DbRes("read", "ok") EXCEPT !.key = key,
                                          !.value = ReadTx_read(db, flash, key)]
    /\ trace' = << >>
    /\ UNCHANGED << flash, db, gh, w, r >>

DbNext ==
    \/ DbFormat
    \/ DbBegin
    \/ \E kv \in DbInputs : DbWrite(kv[1], kv[2])
    \/ DbCommit
    \/ DbDropTx
    \/ DbRemount
    \/ \E k \in Keys : DbRead(k)

DbSpec == DbInit /\ [][DbNext]_vars


(***************************************************************************)
(* The writer of a page with a header type H of any size: PageManager and  *)
(* PageWriter are generic over H, and the first chunk starts at            *)
(* PageHeader::SIZE + size_of::<H>().  gh.hsize is the size of H, fixed    *)
(* for the program; res.calls are the flash calls the last call built,     *)
(* with the arguments it passed.                                           *)
(***************************************************************************)
HeaderSizes == {1, HEADER_SIZE, 2 * WRITE_SIZE}

SizedRes(op, len, n, st, calls) ==
    [op |-> op, len |-> len, n |-> n, st |-> st, calls |-> calls]

SizedInit ==
    /\ flash = MemFlash_new
    /\ w = << >> /\ r = << >> /\ trace = << >>
    /\ db = Database_new
    /\ res = SizedRes("none", 0, 0, "ok", << >>)
    /\ \E hs \in HeaderSizes :
           gh = [hsize |-> hs, hdr |-> FALSE, committed |-> << >>, cur |-> << >>]

SizedOpen ==
    /\ w = << >>
    /\ w' = << PageManager_write_for(gh.hsize) >>
    /\ res' = SizedRes("write_open", 0, 0, "ok", << >>)
    /\ gh' = [gh EXCEPT !.hdr = FALSE, !.committed = << >>, !.cur = << >>]
    /\ trace' = << >>
    /\ UNCHANGED << flash, r, db >>

SizedWrite(len) ==
    /\ w /= << >>
    /\ \E data \in { DataFrom(Len(Concat(gh.committed)) + Len(gh.cur), len) } :
       \E c \in { PageWriter_write(w[1], data) } :
           /\ w' = << c.w >>
           /\ flash' = ApplyOps(flash, c.ops)
           /\ trace' = c.ops
           /\ res' = SizedRes("write", len, c.n, "ok", c.calls)
           /\ gh' = [gh EXCEPT !.cur = @ \o Take(data, c.n)]
    /\ UNCHANGED << r, db >>

SizedWriteHeader ==
    /\ w /= << >> /\ ~gh.hdr
    /\ \E c \in { PageWriter_write_header_of(w[1], [i \in 1 .. gh.hsize |-> i]) } :
           /\ w' = << c.w >>
           /\ flash' = ApplyOps(flash, c.ops)
           /\ trace' = c.ops
           /\ res' = SizedRes("write_header", 0, 0, "ok", c.calls)
    /\ gh' = [gh EXCEPT !.hdr = TRUE]
    /\ UNCHANGED << r, db >>

SizedCommit ==
    /\ w /= << >>
    /\ \E c \in { PageWriter_commit(w[1]) } :
           /\ w' = << c.w >>
           /\ flash' = ApplyOps(flash, c.ops)
           /\ trace' = c.ops
           /\ res' = SizedRes("commit", 0, Len(gh.cur), "ok", c.calls)
    /\ gh' = [gh EXCEPT !.committed = IF gh.cur = << >> THEN @ ELSE Append(@, gh.cur),
                        !.cur = << >>]
    /\ UNCHANGED << r, db >>

SizedDrop ==
    /\ w /= << >>
    /\ w' = << >>
    /\ res' = SizedRes("drop_writer", 0, Len(gh.cur), "ok", << >>)
    /\ gh' = [gh EXCEPT !.cur = << >>]
    /\ trace' = << >>
    /\ UNCHANGED << flash, r, db >>

SizedReadHeader ==
    /\ w = << >>
    /\ \E c \in { PageManager_read_header_for(flash, gh.hsize) } :
           res' = SizedRes("read_header", 0, 0, c.st, c.calls)
    /\ trace' = << >>
    /\ UNCHANGED << flash, w, r, gh, db >>

SizedNext ==
    \/ SizedOpen
    \/ \E len \in WriteLens : SizedWrite(len)
    \/ SizedWriteHeader
    \/ SizedCommit
    \/ SizedDrop
    \/ SizedReadHeader

SizedSpec == SizedInit /\ [][SizedNext]_vars

(***************************************************************************)
(* Properties.  What the flash holds, read in the page layout: the magic   *)
(* and the header at the start of the page and, from the end of the page   *)
(* header on, the chunks up to the first ChunkHeader that is erased, does  *)
(* not fit the page or has no room.                                        *)
(***************************************************************************)
StoredWord(f, off) == FromBytes32([i \in 1 .. 4 |-> f.data[off + i - 1]])
StoredMagic(f) == StoredWord(f, 0)
StoredHeader(f) == StoredWord(f, PAGE_HEADER_SIZE)

\* The word at off is a ChunkHeader of a chunk that lies inside the page.
ChunkAt(f, off) ==
    /\ off + CHUNK_HEADER_SIZE <= PAGE_SIZE
    /\ StoredWord(f, off) >= 0
    /\ StoredWord(f, off) <= PAGE_SIZE - off - CHUNK_HEADER_SIZE

\* The word at off is neither erased nor the header of a chunk inside the page.
BadChunkAt(f, off) ==
    /\ off + CHUNK_HEADER_SIZE <= PAGE_SIZE
    /\ StoredWord(f, off) /= NO_CHUNK
    /\ ~ChunkAt(f, off)

RECURSIVE StoredChunks(_, _)
StoredChunks(f, off) ==
    IF ~ChunkAt(f, off) THEN << >>
    ELSE LET len == StoredWord(f, off) IN
         << [i \in 1 .. len |-> f.data[off + CHUNK_HEADER_SIZE + i - 1]] >>
             \o StoredChunks(f, off + CHUNK_HEADER_SIZE + align_up(len))

Stored(f) == StoredChunks(f, PAGE_HEADER_SIZE + HEADER_SIZE)
StoredEnd(f) == ChunksEnd(Stored(f))

\* The page has a page header with the magic and a chain of chunks with no
\* bad ChunkHeader at its end.
WellFormed(f) == StoredMagic(f) = MAGIC /\ ~BadChunkAt(f, StoredEnd(f))
TailIsErased(f) == \A o \in Offsets : o >= StoredEnd(f) => f.data[o] = ERASE_VALUE

\* C1: page round trip.  After a writer from PageManager::write was given
\* the header h once and data in writes and commits, and was dropped,
\* PageManager::read returns h and a reader that returns, in reads until
\* one returns 0, the bytes of the committed chunks, in order.
C1_RoundTrip ==
    (res.op = "read_open" /\ gh.started /\ gh.hdr /= << >>) =>
        /\ res.st = "ok"
        /\ res.header = gh.hdr[1]
        /\ Concat(ReadChunks(flash).chunks) = Concat(gh.committed)

\* C2: uncommitted data is invisible.  On a page whose header was written,
\* after a writer accepted bytes and was dropped before it committed them,
\* a reader returns the bytes of the chunks committed before and then 0,
\* and none of the bytes that were not committed.
C2_UncommittedInvisible ==
    (res.op = "read_open" /\ gh.started /\ gh.hdr /= << >> /\ gh.lost) =>
        LET got == ReadChunks(flash) IN
        /\ got.st = "ok"
        /\ got.chunks = gh.committed

\* C3: crash recovery of a page.  When execution stops after a write or a
\* commit of a writer whose page has its header, a reader opened afterwards
\* never gets Corrupted; it returns the chunks whose commit was carried out
\* and nothing else.
C3_CrashRecovery ==
    (res.op = "read_open" /\ gh.started /\ gh.hdr /= << >> /\ gh.stopped) =>
        /\ res.st /= "corrupted"
        /\ \A i \in 1 .. Len(gh.committed) :
               /\ Len(Stored(flash)) >= i
               /\ Stored(flash)[i] = gh.committed[i]

\* C6: poisoned append.  write_append on a page with header and chunks whose
\* tail after the last chunk is not erased returns a writer on which every
\* write returns 0, and leaves the chunks as they were.
C6_PoisonedAppend ==
    (res.op = "write_append" /\ WellFormed(flash) /\ ~TailIsErased(flash)) =>
        /\ res.st = "ok"
        /\ w /= << >>
        /\ \A data \in WriteInputs : PageWriter_write(w[1], data).n = 0

\* C7: append extends.  write_append on a page with header and chunks whose
\* tail is erased returns the stored header and a writer that does not
\* erase and stands at the end of the chunks.
C7_AppendExtends ==
    (res.op = "write_append" /\ WellFormed(flash) /\ TailIsErased(flash)) =>
        /\ res.st = "ok"
        /\ res.header = StoredHeader(flash)
        /\ w /= << >>
        /\ ~w[1].needs_erase
        /\ w[1].chunk_offset = StoredEnd(flash)

\* C8: header validation.  read_header, PageManager::read and write_append
\* return Corrupted when the magic stored at offset 0 is not H::MAGIC, and
\* read_header returns Corrupted only then; with the magic in place
\* read_header returns the header stored after it.  None of them changes the
\* flash.
C8_HeaderValidation ==
    /\ res.op \in {"read_header", "read_open", "write_append"} =>
           (StoredMagic(flash) /= MAGIC => res.st = "corrupted")
    /\ (res.op = "read_header" /\ StoredMagic(flash) = MAGIC) =>
           (res.st = "ok" /\ res.header = StoredHeader(flash))

\* Room of the current chunk before the write that just returned.
RoomBefore ==
    PAGE_SIZE - w[1].chunk_offset - CHUNK_HEADER_SIZE - (w[1].chunk_pos - res.n)

\* C9: write capacity.  write returns min(len(data), room of the chunk),
\* the room counted as 0 where the writer stands at the end of the page; a
\* chunk on a freshly opened page takes MAX_PAYLOAD bytes when offered more;
\* after commit every accepted byte is on the page where a reader finds it.
C9_WriteCapacity ==
    /\ res.op = "write" =>
           /\ res.n = Min(res.len, IF RoomBefore < 0 THEN 0 ELSE RoomBefore)
           /\ ( /\ w[1].chunk_offset = PAGE_HEADER_SIZE + HEADER_SIZE
                /\ w[1].chunk_pos = res.n
                /\ res.len > MAX_PAYLOAD ) => res.n = MAX_PAYLOAD
    /\ (res.op = "commit" /\ gh.started /\ res.n > 0) =>
           /\ Len(Stored(flash)) = Len(gh.committed)
           /\ Stored(flash)[Len(gh.committed)] = gh.committed[Len(gh.committed)]

\* C10: reader read semantics.  On a page with header and chunks, the
\* reader that PageManager::read returns gives, for a read of len bytes,
\* the first min(len, length of the first chunk) bytes of the first chunk,
\* and 0 bytes only when the page has no chunk.
C10_ReadSemantics ==
    WellFormed(flash) =>
        \E o \in { PageManager_read(flash) } :
            /\ o.st = "ok"
            /\ \A len \in ReadLens :
                   \E c \in { PageReader_read(o.r, flash, len) } :
                       /\ c.st = "ok"
                       /\ IF Stored(flash) = << >> THEN c.n = 0
                          ELSE /\ c.n = Min(len, Len(Stored(flash)[1]))
                               /\ c.data = Take(Stored(flash)[1], c.n)

\* C12: lazy erase.  PageManager::write carries out no flash call; its
\* writer erases the page once, in the first call that clears needs_erase,
\* and not again.
C12_LazyErase ==
    /\ res.op = "write_open" => (trace = << >> /\ w[1].needs_erase)
    /\ (w /= << >> /\ gh.wkind = "new") =>
           gh.erases = (IF w[1].needs_erase THEN 0 ELSE 1)

\* C13: writer state machine.  The erase that takes a writer out of
\* NeedsErase is made by write_header, and a write on a writer that is
\* still in NeedsErase accepts nothing.
C13_WriteOnlyOpen ==
    [][ /\ (res'.op = "write" /\ w[1].needs_erase) => (res'.n = 0 /\ w'[1].needs_erase)
        /\ (res'.op = "write_header" /\ w[1].needs_erase) =>
               (~w'[1].needs_erase /\ HasErase(trace'))
      ]_vars

\* The bytes [offset, offset + len) of page page_id in the data vector.
DevRange(page_id, offset, len) ==
    { i \in FlashBytes : i >= page_id * PAGE_SIZE + offset
                          /\ i < page_id * PAGE_SIZE + offset + len }

\* C17: MemFlash frame.  A new MemFlash holds ERASE_VALUE in every byte.
\* erase(p) sets every byte of page p to ERASE_VALUE and leaves the bytes of
\* the other pages.  write(p, off, data) is accepted exactly when p is a
\* page, off and the length are multiples of ALIGN, off + length is at most
\* PAGE_SIZE and every byte of the range holds ERASE_VALUE; it then sets the
\* range to data and leaves every other byte; a write that is not accepted
\* and a read change no byte, and a read returns the bytes of its range.
C17_FlashFrame ==
    /\ \A i \in FlashBytes : flash.data[i] = ERASE_VALUE
    /\ [][ LET p   == res'.page_id
               off == res'.offset
               len == Len(res'.data)
               rng == DevRange(p, off, len)
           IN  /\ res'.op = "erase" =>
                      /\ res'.st = "ok" <=> p < MAX_PAGE_COUNT
                      /\ \A i \in FlashBytes :
                             flash'.data[i] =
                                 IF res'.st = "ok" /\ i \in DevRange(p, 0, PAGE_SIZE)
                                 THEN ERASE_VALUE ELSE flash.data[i]
               /\ res'.op = "write" =>
                      /\ res'.st = "ok" <=>
                             /\ p < MAX_PAGE_COUNT
                             /\ off % ALIGN = 0 /\ len % ALIGN = 0
                             /\ off + len <= PAGE_SIZE
                             /\ \A i \in rng : flash.data[i] = ERASE_VALUE
                      /\ \A i \in FlashBytes :
                             flash'.data[i] =
                                 IF res'.st = "ok" /\ i \in rng
                                 THEN res'.data[i - p * PAGE_SIZE - off + 1]
                                 ELSE flash.data[i]
               /\ res'.op = "read" =>
                      /\ flash'.data = flash.data
                      /\ res'.st = "ok" =>
                             \A i \in rng :
                                 res'.data[i - p * PAGE_SIZE - off + 1] = flash.data[i]
         ]_vars

\* Page 1 was erased while page 0 holds written bytes.
C17_Witness ==
    /\ res.op = "erase" /\ res.st = "ok" /\ res.page_id = 1
    /\ \E i \in DevRange(0, 0, PAGE_SIZE) : flash.data[i] /= ERASE_VALUE
    /\ \A i \in DevRange(1, 0, PAGE_SIZE) : flash.data[i] = ERASE_VALUE

\* C18: data before header.  A commit of a chunk with bytes carries out
\* flash calls that end with the write of the ChunkHeader at the chunk's
\* starting offset; every call before it is the erase or a write into the
\* chunk's data area.  No flash call of write touches the bytes of the
\* current chunk's header.
C18_DataBeforeHeader ==
    [][ /\ (res'.op = "commit" /\ w[1].chunk_pos > 0) =>
               LET off == w[1].chunk_offset
                   len == w[1].chunk_pos
               IN  /\ trace' /= << >>
                   /\ trace'[Len(trace')].op = "write"
                   /\ trace'[Len(trace')].offset = off
                   /\ \A i \in 1 .. Len(trace') - 1 :
                          \/ trace'[i].op = "erase"
                          \/ /\ trace'[i].offset >= off + CHUNK_HEADER_SIZE
                             /\ trace'[i].offset + Len(trace'[i].data)
                                    <= off + CHUNK_HEADER_SIZE + align_up(len)
        /\ res'.op = "write" =>
               \A i \in 1 .. Len(trace') :
                   \/ trace'[i].op = "erase"
                   \/ trace'[i].offset >= w[1].chunk_offset + CHUNK_HEADER_SIZE
      ]_vars

\* n rounded up to a multiple of the write alignment.
RoundUp(n) == ((n + ALIGN - 1) \div ALIGN) * ALIGN

\* C19: commit effect.  With bytes accepted since the last commit (or since
\* the writer was opened), commit leaves a ChunkHeader with their number at
\* the chunk's offset on the flash, moves the chunk offset on by the
\* ChunkHeader size plus that number rounded up to the write alignment and
\* sets the chunk byte count to 0.  With none, commit makes no flash call
\* and leaves the writer as it is.
C19_CommitEffect ==
    [][ res'.op = "commit" =>
            IF w[1].chunk_pos = 0
            THEN trace' = << >> /\ w' = w /\ flash' = flash
            ELSE /\ StoredWord(flash', w[1].chunk_offset) = w[1].chunk_pos
                 /\ w'[1].chunk_offset =
                        w[1].chunk_offset + CHUNK_HEADER_SIZE + RoundUp(w[1].chunk_pos)
                 /\ w'[1].chunk_pos = 0
                 /\ w'[1].total_pos = w[1].total_pos
      ]_vars

\* C20: PageWriter::len is the number of data bytes in the page over all
\* chunks: for a writer from PageManager::write the bytes it accepted, and
\* for the writer that write_append returns on a page with header and
\* chunks, the bytes of those chunks at first.
C20_LenTotal ==
    /\ (w /= << >> /\ gh.wkind = "new") =>
           PageWriter_len(w[1]) =
               IF w[1].needs_erase THEN 0
               ELSE Len(Concat(gh.committed)) + Len(gh.cur)
    /\ (res.op = "write_append" /\ WellFormed(flash) /\ TailIsErased(flash)) =>
           /\ w /= << >>
           /\ PageWriter_len(w[1]) = Len(Concat(Stored(flash)))

\* C14: database round trip.  After format and any write transactions, each
\* writing keys in ascending order and then committing, a read of any key
\* returns the value of the most recent committed write of that key, and the
\* empty value (length 0) for a key never written.
C14_DbRoundTrip ==
    res.op = "read" => res.value = gh.mirror[res.key]

\* C15: persistence across remount.  A new Database over the flash that a
\* formatted database left after a committed write transaction mounts, and
\* gives every key the value it had before.
C15_Remount ==
    (res.op = "remount" /\ gh.commits > 0) =>
        /\ res.st = "ok"
        /\ \A k \in Keys : ReadTx_read(db, flash, k) = gh.mirror[k]

\* C16: crash consistency of commit.  Once the commit of a write
\* transaction has made all its flash calls, the ChunkHeader of the new meta
\* page among them, a mount of the flash finds the state after the commit.
C16_CrashCommit ==
    (res.op = "commit" /\ res.st = "ok") =>
        \E m \in { Database_mount(flash) } :
            /\ m.st = "ok"
            /\ m.db.meta_seq = db.meta_seq
            /\ m.db.files = db.files

C23_FullPermanent ==
    /\ [][ (gh.wfull /\ res'.op = "write") => res'.n = 0 ]_vars
    /\ []( (res.op = "write_append" /\ gh.started /\ gh.hdr /= << >> /\ gh.full) =>
               /\ res.st = "ok"
               /\ w /= << >>
               /\ max_write(w[1]) = 0 )

\* C21: skip matches read.  On a page with header and chunks, from the
\* reader that PageManager::read returns, skip(n) and a read of n bytes
\* return the same count and leave the reader in the same chunk at the same
\* position; a read after a skip of k bytes returns the bytes that follow
\* the first k of the chunk.
C21_SkipMatchesRead ==
    (WellFormed(flash) /\ Stored(flash) /= << >>) =>
        \E o \in { PageManager_read(flash) } :
            /\ o.st = "ok"
            /\ \A n \in ReadLens :
                   \E s \in { PageReader_skip(o.r, flash, n) },
                      c \in { PageReader_read(o.r, flash, n) } :
                       /\ s.st = c.st /\ s.n = c.n
                       /\ s.r.chunk_offset = c.r.chunk_offset
                       /\ s.r.chunk_pos = c.r.chunk_pos
                       /\ s.r.at_end = c.r.at_end
                       /\ PageReader_read(s.r, flash, MAX_CHUNK_SIZE).data
                              = Drop(Stored(flash)[1], s.n)

\* C24: reader and appender.  On a page with header, chunks and an erased
\* tail, PageManager::read and write_append do not return Corrupted, and the
\* bytes the reader returns are a prefix of the chunks whose ChunkHeader is
\* on the flash.
C24_ReaderSeesCommitted ==
    (res.op \in {"read_open", "write_append"} /\ WellFormed(flash) /\ TailIsErased(flash)) =>
        /\ res.st /= "corrupted"
        /\ IsPrefix(Concat(ReadChunks(flash).chunks), Concat(Stored(flash)))

====
